---- MODULE Spec2Model ----
(***************************************************************************)
(* A model of vimwiki_markdown.py: the link rewriting rule                 *)
(* (LinkInlineProcessor.getLink) and the run of main(), from the syntax    *)
(* check to the write of the output file.                                  *)
(*                                                                         *)
(* Strings are sequences of atoms.  An atom is a TLA+ string: a single     *)
(* character ("%", "/", "h", ...) or a whole word of text that shares no   *)
(* character with the patterns the program searches for.  The Python      *)
(* string a sequence stands for is the concatenation of its atoms.         *)
(***************************************************************************)
EXTENDS Naturals, Sequences, FiniteSets, TLC

VARIABLES
    \* ---- the inputs of a run (never changed by the program)
    SYNTAX,             \* sys.argv[2]
    TEMPLATE_PATH,      \* sys.argv[7] or VIMWIKI_TEMPLATE_PATH
    TEMPLATE_DEFAULT,   \* sys.argv[8] or VIMWIKI_TEMPLATE_DEFAULT
    TEMPLATE_EXT,       \* sys.argv[9] or VIMWIKI_TEMPLATE_EXT
    ROOT_PATH,          \* sys.argv[10] or VIMWIKI_ROOT_PATH or os.getcwd()
    extensions_env,     \* VIMWIKI_MARKDOWN_EXTENSIONS
    files,              \* the template files on disk: path -> content
    input_ok,           \* whether INPUT_FILE can be opened for reading
    output_ok,          \* whether output_file can be opened for writing
    post,               \* the front matter of INPUT_FILE: key -> value
    body,               \* the body of INPUT_FILE (post.content)
    auto_index,         \* the module-level auto_index flag
    \* ---- the state of main()
    pc,                 \* the position of main()
    template,           \* the local variable template
    extensions,         \* the local variable extensions
    extension_names,    \* the local variable extension_names
    md,                 \* the arguments markdown.Markdown was built with
    placeholders,       \* the local dict placeholders, in insertion order
    content,            \* the local variable content
    stderr,             \* what was written to sys.stderr
    exit_code,          \* the exit code of the process, NoExit while running
    reads,              \* the files read so far, in order
    writes,             \* the files written so far, in order
    \* ---- one call of getLink followed by a second on its result
    href,               \* the target super().getLink returned
    href1,              \* getLink's result for href
    href2,              \* getLink's result for href1
    lpc                 \* "call", "once", "twice" (or "idle")

inputs == <<SYNTAX, TEMPLATE_PATH, TEMPLATE_DEFAULT, TEMPLATE_EXT, ROOT_PATH,
            extensions_env, files, input_ok, output_ok, post, body, auto_index>>
locals == <<template, extensions, extension_names, md, placeholders, content>>
outs   == <<stderr, exit_code, reads, writes>>
link   == <<href, href1, href2, lpc>>
vars   == <<inputs, pc, locals, outs, link>>

(***************************************************************************)
(* Bounds of the model.                                                    *)
(***************************************************************************)
MaxHrefParts == 3   \* a link target is made of at most this many fragments
MaxSlots     == 4   \* a template holds at most this many tokens
MaxExts      == 2   \* an extension configuration names at most this many

(***************************************************************************)
(* Python's str operations, on sequences of atoms.                         *)
(***************************************************************************)
StartsWith(s, p) == Len(s) >= Len(p) /\ SubSeq(s, 1, Len(p)) = p

EndsWith(s, p) == Len(s) >= Len(p) /\ SubSeq(s, Len(s) - Len(p) + 1, Len(s)) = p

\* s.replace(old, new), old not empty: every occurrence found by a scan from
\* the left, the scan resuming after each occurrence it replaces.
RECURSIVE Replace(_, _, _)
Replace(s, old, new) ==
    IF Len(s) < Len(old) THEN s
    ELSE IF SubSeq(s, 1, Len(old)) = old
         THEN new \o Replace(SubSeq(s, Len(old) + 1, Len(s)), old, new)
         ELSE <<s[1]>> \o Replace(Tail(s), old, new)

\* old in s
RECURSIVE Contains(_, _)
Contains(s, old) ==
    /\ Len(s) >= Len(old)
    /\ \/ SubSeq(s, 1, Len(old)) = old
       \/ Contains(Tail(s), old)

RECURSIVE Concat(_)
Concat(ss) == IF ss = <<>> THEN <<>> ELSE Head(ss) \o Concat(Tail(ss))

\* The sequences over S of length 0 .. n.
SeqsUpTo(S, n) == UNION {[1..k -> S] : k \in 0..n}

(***************************************************************************)
(* LinkInlineProcessor.getLink                                             *)
(***************************************************************************)
Http      == <<"h", "t", "t", "p">>
DotHtml   == <<".", "h", "t", "m", "l">>
Slash     == <<"/">>
IndexHtml == <<"i", "n", "d", "e", "x", ".", "h", "t", "m", "l">>

\* A mutation of getLink: the second branch lost its "not".
getLinkSlashOnly(h, ai) ==
    IF ~StartsWith(h, Http) /\ ~EndsWith(h, DotHtml)
    THEN IF ai /\ EndsWith(h, Slash) THEN h \o IndexHtml
         ELSE IF EndsWith(h, Slash) THEN h \o DotHtml
         ELSE h
    ELSE h

\* A mutation of getLink: the test for an already resolved link is dropped.
getLinkWithoutHtmlTest(h, ai) ==
    IF ~StartsWith(h, Http)
    THEN IF ai /\ EndsWith(h, Slash) THEN h \o IndexHtml
         ELSE IF ~EndsWith(h, Slash) THEN h \o DotHtml
         ELSE h
    ELSE h

\* The href of getLink's result, for the href h of super().getLink and the
\* value ai of the global auto_index.
getLink(h, ai) ==
    IF ~StartsWith(h, Http) /\ ~EndsWith(h, DotHtml)
    THEN IF ai /\ EndsWith(h, Slash) THEN h \o IndexHtml
         ELSE IF ~EndsWith(h, Slash) THEN h \o DotHtml
         ELSE h
    ELSE h

\* The fragments link targets are made of.
HrefFragments ==
    { Http, <<"h", "t", "t">>, DotHtml, <<"h", "t", "m", "l">>, Slash,
      <<"a">>, <<".">>, <<"i", "n", "d", "e", "x">> }

HrefSet == { Concat(fs) : fs \in SeqsUpTo(HrefFragments, MaxHrefParts) }

(***************************************************************************)
(* Python values.  A str is [t |-> "str", v |-> its atoms]; a dict is      *)
(* [t |-> "dict", v |-> its items in insertion order], an item being       *)
(* [key |-> k, value |-> x]; a list is [t |-> "list", v |-> its elements]; *)
(* any other value (True, None, a number, a date) is [t |-> "lit", v |-> a *)
(* one-atom spelling of it].                                               *)
(***************************************************************************)
Str(atoms)   == [t |-> "str", v |-> atoms]
Dict(items)  == [t |-> "dict", v |-> items]
List(elems)  == [t |-> "list", v |-> elems]
Lit(word)    == [t |-> "lit", v |-> <<word>>]
EmptyDict    == Dict(<<>>)

Keys(d) == [i \in 1..Len(d.v) |-> d.v[i].key]

\* The number a literal is equal to: True == 1 and False == 0 in Python, and
\* equal values have one hash.
Number(word) ==
    IF word \in {"true", "True", "1"} THEN "1"
    ELSE IF word \in {"false", "False", "0"} THEN "0"
    ELSE word

\* a == b as a dict compares its keys.
KeyEq(a, b) ==
    \/ a = b
    \/ a.t = "lit" /\ b.t = "lit" /\ Number(a.v[1]) = Number(b.v[1])

HasKey(d, k) == \E i \in 1..Len(d.v) : KeyEq(d.v[i].key, k)

Get(d, k) == d.v[CHOOSE i \in 1..Len(d.v) : KeyEq(d.v[i].key, k)].value

\* d[k] = x: a key already in d keeps its place and its own spelling, a new
\* key goes last.
SetItem(d, k, x) ==
    IF HasKey(d, k)
    THEN Dict([i \in 1..Len(d.v) |->
                 IF KeyEq(d.v[i].key, k)
                 THEN [key |-> d.v[i].key, value |-> x] ELSE d.v[i]])
    ELSE Dict(Append(d.v, [key |-> k, value |-> x]))

\* d after d.pop(k)
Pop(d, k) == Dict(SelectSeq(d.v, LAMBDA it : ~KeyEq(it.key, k)))

(***************************************************************************)
(* json.loads and str.split(","), on the atoms of VIMWIKI_MARKDOWN_EXTENSIONS. *)
(* The atoms of a JSON text are its punctuation characters, the words      *)
(* true, false, null, a number, and the words between quotes; the texts    *)
(* of the model hold no white space and no escapes.                        *)
(***************************************************************************)
Quote        == "\""
JsonLiterals == {"true", "false", "null", "1"}

Failed == [ok |-> FALSE, val |-> Lit("error"), next |-> 0]
Parsed(x, n) == [ok |-> TRUE, val |-> x, next |-> n]

\* The place of the first quote of s at or after i, Len(s) + 1 if none.
RECURSIVE NextQuote(_, _)
NextQuote(s, i) ==
    IF i > Len(s) THEN Len(s) + 1
    ELSE IF s[i] = Quote THEN i ELSE NextQuote(s, i + 1)

\* A string begins at the quote s[i].
ParseString(s, i) ==
    LET j == NextQuote(s, i + 1)
    IN  IF j > Len(s) THEN Failed ELSE Parsed(Str(SubSeq(s, i + 1, j - 1)), j + 1)

RECURSIVE ParseValue(_, _), ParseMembers(_, _, _), ParseElements(_, _, _)

\* The JSON value that begins at s[i].
ParseValue(s, i) ==
    IF i > Len(s) THEN Failed
    ELSE IF s[i] = "{"
         THEN IF i + 1 <= Len(s) /\ s[i + 1] = "}"
              THEN Parsed(EmptyDict, i + 2)
              ELSE ParseMembers(s, i + 1, EmptyDict)
    ELSE IF s[i] = "["
         THEN IF i + 1 <= Len(s) /\ s[i + 1] = "]"
              THEN Parsed(List(<<>>), i + 2)
              ELSE ParseElements(s, i + 1, <<>>)
    ELSE IF s[i] = Quote THEN ParseString(s, i)
    ELSE IF s[i] \in JsonLiterals THEN Parsed(Lit(s[i]), i + 1)
    ELSE Failed

\* The members of an object from s[i] on, d holding those before: a string,
\* a colon, a value, then a comma and more members, or the closing brace.
\* A key given twice keeps its first place and takes its last value.  The
\* keys of the dict are the str values of the member names.
ParseMembers(s, i, d) ==
    IF i > Len(s) \/ s[i] # Quote THEN Failed
    ELSE LET k == ParseString(s, i)
         IN  IF ~k.ok \/ k.next > Len(s) \/ s[k.next] # ":" THEN Failed
             ELSE LET x == ParseValue(s, k.next + 1)
                  IN  IF ~x.ok \/ x.next > Len(s) THEN Failed
                      ELSE IF s[x.next] = "}"
                           THEN Parsed(SetItem(d, k.val, x.val), x.next + 1)
                      ELSE IF s[x.next] = ","
                           THEN ParseMembers(s, x.next + 1,
                                             SetItem(d, k.val, x.val))
                      ELSE Failed

\* The elements of an array from s[i] on, es holding those before.
ParseElements(s, i, es) ==
    LET x == ParseValue(s, i)
    IN  IF ~x.ok \/ x.next > Len(s) THEN Failed
        ELSE IF s[x.next] = "]"
             THEN Parsed(List(Append(es, x.val)), x.next + 1)
        ELSE IF s[x.next] = ","
             THEN ParseElements(s, x.next + 1, Append(es, x.val))
        ELSE Failed

\* json.loads(s): ok is FALSE where json.loads raises JSONDecodeError, which
\* it does too for text after the value.
json_loads(s) ==
    LET x == ParseValue(s, 1)
    IN  IF x.ok /\ x.next = Len(s) + 1 THEN x ELSE Failed

\* s.split(","): the pieces of s between its commas, as a list of atom
\* sequences; the split of the empty string is one empty piece.
RECURSIVE Split(_, _)
Split(s, piece) ==
    IF s = <<>> THEN <<piece>>
    ELSE IF Head(s) = "," THEN <<piece>> \o Split(Tail(s), <<>>)
    ELSE Split(Tail(s), Append(piece, Head(s)))

split_comma(s) == Split(s, <<>>)

(***************************************************************************)
(* The constants of the module and the fixed arguments of the run.         *)
(***************************************************************************)
TokTitle   == <<"%", "title", "%">>
TokDate    == <<"%", "date", "%">>
TokRoot    == <<"%", "root_path", "%">>
TokContent == <<"%", "content", "%">>

\* The keys of the front matter that main() reads.
KeyNohtml   == Str(<<"nohtml">>)
KeyTitle    == Str(<<"title">>)
KeyDate     == Str(<<"date">>)
KeyTemplate == Str(<<"template">>)

\* The atoms of a placeholder key of the dict placeholders.
Token(key) == key.v

default_template ==
    <<"<!DOCTYPE html>\n<html>\n    <head>\n        <meta charset=\"UTF-8\" />\n        <meta name=\"date\" content=\"">>
    \o TokDate \o
    <<"\" scheme=\"YYYY-MM-DD\">\n        <meta name=\"viewport\" content=\"width=device-width\" />\n        <title>">>
    \o TokTitle \o
    <<"</title>\n        <link rel=\"stylesheet\" href=\"">>
    \o TokRoot \o
    <<"style.css\" type=\"text/css\"\n         media=\"screen\" title=\"no title\" charset=\"utf-8\">\n        <link rel=\"stylesheet\" href=\"">>
    \o TokRoot \o
    <<"pygmentize.css\" type=\"text/css\"\n         media=\"screen\" title=\"no title\" charset=\"utf-8\">\n    </head>\n    <body>\n\n">>
    \o TokContent \o
    <<"\n\n    </body>\n</html>\n">>

default_extension == <<Str(<<"fenced_code">>), Str(<<"tables">>), Str(<<"codehilite">>)>>

OUTPUT_DIR == <<"site">>
INPUT_FILE == <<"wiki", "/", "page", ".md">>
Today      == <<"2026-10-29">>

\* os.path.join(a, b)
PathJoin(a, b) ==
    IF StartsWith(b, Slash) THEN b
    ELSE IF a = <<>> \/ EndsWith(a, Slash) THEN a \o b
    ELSE a \o Slash \o b

\* os.path.basename(p): what follows the last slash of p.
RECURSIVE BaseName(_)
BaseName(p) ==
    IF \E i \in 1..Len(p) : p[i] = "/"
    THEN BaseName(Tail(p))
    ELSE p

\* os.path.splitext(p)[0], p a file name with no slash: the name without its
\* last atom when that atom is an extension (a dot and what follows it).
FileExtensions == {".md", ".wiki", ".tpl", ".html"}
SplitExtRoot(p) ==
    IF Len(p) > 1 /\ p[Len(p)] \in FileExtensions
    THEN SubSeq(p, 1, Len(p) - 1)
    ELSE p

filename    == SplitExtRoot(BaseName(INPUT_FILE))
output_file == PathJoin(OUTPUT_DIR, filename \o <<".html">>)

\* os.path.join(TEMPLATE_PATH, name) + TEMPLATE_EXT
TemplateFile(name) == PathJoin(TEMPLATE_PATH, name) \o TEMPLATE_EXT

isfile(path) == path \in DOMAIN files

(***************************************************************************)
(* md.convert, with the link rule of LinkInlineProcessor registered.  The  *)
(* markdown of the model is plain text and inline links: a link is the     *)
(* atoms "[", one atom of text, "]", "(", the atoms of the target, ")".    *)
(***************************************************************************)
RECURSIVE ClosingParen(_, _)
ClosingParen(s, i) ==
    IF i > Len(s) THEN Len(s) + 1
    ELSE IF s[i] = ")" THEN i ELSE ClosingParen(s, i + 1)

IsLinkAt(s) ==
    /\ Len(s) >= 5
    /\ s[1] = "[" /\ s[3] = "]" /\ s[4] = "("
    /\ ClosingParen(s, 5) <= Len(s)

RECURSIVE Inline(_, _)
Inline(s, ai) ==
    IF s = <<>> THEN <<>>
    ELSE IF IsLinkAt(s)
         THEN LET j == ClosingParen(s, 5)
              IN  <<"<a href=\"">> \o getLink(SubSeq(s, 5, j - 1), ai)
                  \o <<"\">", s[2], "</a>">>
                  \o Inline(SubSeq(s, j + 1, Len(s)), ai)
         ELSE <<Head(s)>> \o Inline(Tail(s), ai)

\* s without its trailing newlines
RECURSIVE StripNewlines(_)
StripNewlines(s) ==
    IF s # <<>> /\ s[Len(s)] = "\n"
    THEN StripNewlines(SubSeq(s, 1, Len(s) - 1))
    ELSE s

Convert(s, ai) ==
    LET text == StripNewlines(s)
    IN  IF text = <<>> THEN <<>>
        ELSE <<"<p>">> \o Inline(text, ai) \o <<"</p>">>

(***************************************************************************)
(* main(), one action per step.  An unhandled exception ends the run with  *)
(* a traceback on sys.stderr and the exit code 1.                          *)
(***************************************************************************)
Raise(site) ==
    /\ pc' = "crashed"
    /\ stderr' = stderr \o <<"Traceback", site>>
    /\ exit_code' = <<1>>

\* A mutation of CheckSyntax: the message is written and the run goes on.
CheckSyntaxWithoutExit ==
    /\ pc = "check_syntax"
    /\ IF SYNTAX # "markdown"
       THEN /\ stderr' = stderr \o <<"Unsupported syntax: ", SYNTAX>>
            /\ UNCHANGED exit_code
            /\ pc' = "assign_template"
       ELSE /\ pc' = "assign_template"
            /\ UNCHANGED <<stderr, exit_code>>
    /\ UNCHANGED <<inputs, locals, reads, writes, link>>

\* Lines 80-83: only markdown is supported.
CheckSyntax ==
    /\ pc = "check_syntax"
    /\ IF SYNTAX # "markdown"
       THEN /\ stderr' = stderr \o <<"Unsupported syntax: ", SYNTAX>>
            /\ exit_code' = <<1>>
            /\ pc' = "exited"
       ELSE /\ pc' = "assign_template"
            /\ UNCHANGED <<stderr, exit_code>>
    /\ UNCHANGED <<inputs, locals, reads, writes, link>>

\* Lines 85-92: the built-in template, or the default template file.
AssignTemplate ==
    /\ pc = "assign_template"
    /\ LET template_file == TemplateFile(TEMPLATE_DEFAULT)
       IN  IF isfile(template_file)
           THEN /\ template' = files[template_file]
                /\ reads' = Append(reads, template_file)
           ELSE /\ template' = default_template
                /\ UNCHANGED reads
    /\ pc' = "parse_extensions"
    /\ UNCHANGED <<inputs, extensions, extension_names, md, placeholders,
                   content, stderr, exit_code, writes, link>>

\* A mutation of LoadExtensions: the legacy value is not split at its commas.
LoadExtensionsUnsplit(env) ==
    LET x == json_loads(env)
    IN  IF x.ok THEN x.val ELSE List(<<Str(env)>>)

\* Lines 103-107: json.loads, and value.split(",") where it raises.
LoadExtensions(env) ==
    LET x == json_loads(env)
        pieces == split_comma(env)
    IN  IF x.ok THEN x.val
        ELSE List([i \in 1..Len(pieces) |-> Str(pieces[i])])

ParseExtensions ==
    /\ pc = "parse_extensions"
    /\ extensions' = LoadExtensions(extensions_env)
    /\ pc' = "normalize_extensions"
    /\ UNCHANGED <<inputs, template, extension_names, md, placeholders,
                   content, outs, link>>

\* {e: {} for e in elems}
RECURSIVE FromList(_, _)
FromList(elems, d) ==
    IF elems = <<>> THEN d
    ELSE FromList(Tail(elems), SetItem(d, Head(elems), EmptyDict))

\* A dict or a list is not hashable, and cannot be a key.
Hashable(x) == x.t \in {"str", "lit"}

\* Lines 109-110: a list becomes a dict of empty configurations.
NormalizeExtensions ==
    /\ pc = "normalize_extensions"
    /\ IF extensions.t = "list"
       THEN IF \A i \in 1..Len(extensions.v) : Hashable(extensions.v[i])
            THEN /\ extensions' = FromList(extensions.v, EmptyDict)
                 /\ pc' = "extension_names"
                 /\ UNCHANGED <<stderr, exit_code>>
            ELSE /\ Raise("line 110")
                 /\ UNCHANGED extensions
       ELSE /\ pc' = "extension_names"
            /\ UNCHANGED <<extensions, stderr, exit_code>>
    /\ UNCHANGED <<inputs, template, extension_names, md, placeholders,
                   content, reads, writes, link>>

\* Line 112: a value that is no dict has no keys().
ExtensionNames ==
    /\ pc = "extension_names"
    /\ IF extensions.t = "dict"
       THEN /\ extension_names' = default_extension \o Keys(extensions)
            /\ pc' = "setup_markdown"
            /\ UNCHANGED <<stderr, exit_code>>
       ELSE /\ Raise("line 112")
            /\ UNCHANGED extension_names
    /\ UNCHANGED <<inputs, template, extensions, md, placeholders,
                   content, reads, writes, link>>

\* The extensions markdown.Markdown can load.
Installed == { Str(<<"fenced_code">>), Str(<<"tables">>), Str(<<"codehilite">>),
               Str(<<"toc">>) }

\* A mutation of MarkdownArgs: the configurations of the baseline extensions
\* are dropped.
MarkdownArgsBaselineEmpty(names, configs) ==
    [extensions |-> names,
     extension_configs |->
        Dict(SelectSeq(configs.v,
                       LAMBDA it : \A i \in 1..Len(default_extension) :
                                       it.key # default_extension[i]))]

\* Lines 114-117: the keyword arguments of markdown.Markdown.
MarkdownArgs(names, configs) ==
    [extensions |-> names, extension_configs |-> configs]

\* Lines 114-121: markdown.Markdown raises for an extension it cannot load
\* and for a configuration that is no dict.
SetupMarkdown ==
    /\ pc = "setup_markdown"
    /\ IF /\ \A i \in 1..Len(extension_names) : extension_names[i] \in Installed
          /\ \A i \in 1..Len(extensions.v) : extensions.v[i].value.t = "dict"
       THEN /\ md' = MarkdownArgs(extension_names, extensions)
            /\ pc' = "open_input"
            /\ UNCHANGED <<stderr, exit_code>>
       ELSE /\ Raise("line 114")
            /\ UNCHANGED md
    /\ UNCHANGED <<inputs, template, extensions, extension_names, placeholders,
                   content, reads, writes, link>>

\* Lines 123-125: open(INPUT_FILE) raises when the file cannot be read.
OpenInput ==
    /\ pc = "open_input"
    /\ IF input_ok
       THEN /\ content' = <<>>
            /\ placeholders' = EmptyDict
            /\ pc' = "load_front_matter"
            /\ UNCHANGED <<stderr, exit_code>>
       ELSE /\ Raise("line 123")
            /\ UNCHANGED <<content, placeholders>>
    /\ UNCHANGED <<inputs, template, extensions, extension_names, md,
                   reads, writes, link>>

\* A mutation of Suppressed: the value is compared with the bool True.
SuppressedByBool(p) == HasKey(p, KeyNohtml) /\ Get(p, KeyNohtml) = Lit("True")

\* Lines 129-130: 'nohtml' in post and post['nohtml'] == 'true'
Suppressed(p) == HasKey(p, KeyNohtml) /\ Get(p, KeyNohtml) = Str(<<"true">>)

\* Lines 128-131: the front matter is read; nohtml ends the run with 0.
LoadFrontMatter ==
    /\ pc = "load_front_matter"
    /\ reads' = Append(reads, INPUT_FILE)
    /\ IF Suppressed(post)
       THEN /\ exit_code' = <<0>>
            /\ pc' = "exited"
       ELSE /\ pc' = "collect_placeholders"
            /\ UNCHANGED exit_code
    /\ UNCHANGED <<inputs, locals, stderr, writes, link>>

\* Lines 132-137 and 141-146: the dict placeholders.
Collected(p) ==
    LET d1 == IF HasKey(p, KeyTitle)
              THEN SetItem(EmptyDict, Str(TokTitle), Get(p, KeyTitle)) ELSE EmptyDict
        d2 == IF HasKey(p, KeyDate)
              THEN SetItem(d1, Str(TokDate), Get(p, KeyDate)) ELSE d1
        d3 == IF HasKey(p, KeyTemplate)
              THEN SetItem(d2, KeyTemplate, Get(p, KeyTemplate)) ELSE d2
        d4 == IF ~HasKey(d3, Str(TokTitle))
              THEN SetItem(d3, Str(TokTitle), Str(filename)) ELSE d3
    IN  IF ~HasKey(d4, Str(TokDate)) THEN SetItem(d4, Str(TokDate), Str(Today)) ELSE d4

\* Lines 132-146.
CollectPlaceholders ==
    /\ pc = "collect_placeholders"
    /\ placeholders' = Collected(post)
    /\ content' = body \o <<"\n">>
    /\ pc' = "select_template"
    /\ UNCHANGED <<inputs, template, extensions, extension_names, md, outs, link>>

\* Lines 147-152: the template the front matter names, when its file exists;
\* os.path.join raises for a name that is no str, after the key was popped.
SelectTemplate ==
    /\ pc = "select_template"
    /\ IF HasKey(placeholders, KeyTemplate)
       THEN LET t == Get(placeholders, KeyTemplate)
            IN  /\ placeholders' = Pop(placeholders, KeyTemplate)
                /\ IF t.t # "str"
                   THEN /\ Raise("line 149")
                        /\ UNCHANGED <<template, reads>>
                   ELSE /\ IF isfile(TemplateFile(t.v))
                           THEN /\ template' = files[TemplateFile(t.v)]
                                /\ reads' = Append(reads, TemplateFile(t.v))
                           ELSE UNCHANGED <<template, reads>>
                        /\ pc' = "substitute_placeholders"
                        /\ UNCHANGED <<stderr, exit_code>>
       ELSE /\ pc' = "substitute_placeholders"
            /\ UNCHANGED <<placeholders, template, reads, stderr, exit_code>>
    /\ UNCHANGED <<inputs, extensions, extension_names, md, content, writes, link>>

\* A mutation of SubstituteAll: the loop stops after its first placeholder.
SubstituteFirstOnly(t, items) ==
    IF items = <<>> THEN t
    ELSE Replace(t, Token(Head(items).key), Head(items).value.v)

\* Lines 155-156: for placeholder, value in placeholders.items():
\*                    template = template.replace(placeholder, value)
RECURSIVE SubstituteAll(_, _)
SubstituteAll(t, items) ==
    IF items = <<>> THEN t
    ELSE SubstituteAll(Replace(t, Token(Head(items).key), Head(items).value.v),
                       Tail(items))

\* The items the loop of lines 155-156 gets through: those before the first
\* value that is no str.
RECURSIVE Replaceable(_)
Replaceable(items) ==
    IF items = <<>> \/ Head(items).value.t # "str" THEN <<>>
    ELSE <<Head(items)>> \o Replaceable(Tail(items))

\* Lines 155-156: str.replace raises for a value that is no str; the
\* replacements made before it stay in template.
SubstitutePlaceholders ==
    /\ pc = "substitute_placeholders"
    /\ template' = SubstituteAll(template, Replaceable(placeholders.v))
    /\ IF Replaceable(placeholders.v) = placeholders.v
       THEN /\ pc' = "substitute_root_path"
            /\ UNCHANGED <<stderr, exit_code>>
       ELSE Raise("line 156")
    /\ UNCHANGED <<inputs, extensions, extension_names, md, placeholders,
                   content, reads, writes, link>>

\* A mutation of RootValue: the sentinel "-" is not recognised.
RootValueRaw == ROOT_PATH

\* Line 159: ROOT_PATH if ROOT_PATH != "-" else ""
RootValue == IF ROOT_PATH # <<"-">> THEN ROOT_PATH ELSE <<>>

\* Lines 158-160.
SubstituteRootPath ==
    /\ pc = "substitute_root_path"
    /\ template' = Replace(template, TokRoot, RootValue)
    /\ pc' = "convert_content"
    /\ UNCHANGED <<inputs, extensions, extension_names, md, placeholders,
                   content, outs, link>>

\* Line 163.
ConvertContent ==
    /\ pc = "convert_content"
    /\ content' = Convert(content, auto_index)
    /\ pc' = "merge_template"
    /\ UNCHANGED <<inputs, template, extensions, extension_names, md,
                   placeholders, outs, link>>

\* Line 166.
MergeTemplate ==
    /\ pc = "merge_template"
    /\ template' = Replace(template, TokContent, content)
    /\ pc' = "write_output"
    /\ UNCHANGED <<inputs, extensions, extension_names, md, placeholders,
                   content, outs, link>>

\* A mutation of WriteOutput: the file is written twice.
WriteOutputTwice ==
    /\ pc = "write_output"
    /\ IF output_ok
       THEN /\ writes' = writes \o << [path |-> output_file, data |-> template],
                                      [path |-> output_file, data |-> template] >>
            /\ exit_code' = <<0>>
            /\ pc' = "done"
            /\ UNCHANGED stderr
       ELSE /\ Raise("line 168")
            /\ UNCHANGED writes
    /\ UNCHANGED <<inputs, locals, reads, link>>

\* Lines 168-169: open(output_file, "wb") raises when the file cannot be
\* created; main returns and the process ends with 0.
WriteOutput ==
    /\ pc = "write_output"
    /\ IF output_ok
       THEN /\ writes' = Append(writes, [path |-> output_file, data |-> template])
            /\ exit_code' = <<0>>
            /\ pc' = "done"
            /\ UNCHANGED stderr
       ELSE /\ Raise("line 168")
            /\ UNCHANGED writes
    /\ UNCHANGED <<inputs, locals, reads, link>>

(***************************************************************************)
(* One call of getLink, and a second call on its result.                   *)
(***************************************************************************)
GetLinkOnce ==
    /\ lpc = "call"
    /\ href1' = getLink(href, auto_index)
    /\ lpc' = "once"
    /\ UNCHANGED <<inputs, pc, locals, outs, href, href2>>

GetLinkAgain ==
    /\ lpc = "once"
    /\ href2' = getLink(href1, auto_index)
    /\ lpc' = "twice"
    /\ UNCHANGED <<inputs, pc, locals, outs, href, href1>>

(***************************************************************************)
(* The inputs of the model.                                                *)
(***************************************************************************)
Item(k, x) == [key |-> k, value |-> x]

DefaultPath == <<"tpl", "/", "default", ".tpl">>
PostPath    == <<"tpl", "/", "post", ".tpl">>

DefaultFileText == <<"<h1>">> \o TokTitle \o <<"</h1>">> \o TokContent
PostFileText    == <<"<i>">> \o TokDate \o <<"</i>">> \o TokContent

FileText(path) == IF path = DefaultPath THEN DefaultFileText ELSE PostFileText

FilesSet == { [p \in D |-> FileText(p)] : D \in SUBSET {DefaultPath, PostPath} }

\* The front matters of the runs of Spec: each key absent, a str, or a value
\* of another type (YAML reads true as a bool, 7 as an int, a date as a date).
NohtmlOpts   == { <<>>, <<Item(KeyNohtml, Str(<<"true">>))>>,
                  <<Item(KeyNohtml, Str(<<"false">>))>>,
                  <<Item(KeyNohtml, Lit("True"))>> }
TitleOpts    == { <<>>, <<Item(KeyTitle, Str(<<"Hello">>))>> }
DateOpts     == { <<>>, <<Item(KeyDate, Str(<<"2020-01-01">>))>>,
                  <<Item(KeyDate, Lit("datetime.date(2020, 1, 1)"))>> }
TemplateOpts == { <<>>, <<Item(KeyTemplate, Str(<<"post">>))>>,
                  <<Item(KeyTemplate, Lit("7"))>> }

PostSet == { Dict(n \o t \o d \o tp) :
               n \in NohtmlOpts, t \in TitleOpts, d \in DateOpts, tp \in TemplateOpts }

BodyText == <<"See ", "[", "Page", "]", "(", "s", "u", "b", "/", ")">>

NoMarkdown == [extensions |-> <<>>, extension_configs |-> EmptyDict]

LinkIdle ==
    /\ href = <<>> /\ href1 = <<>> /\ href2 = <<>> /\ lpc = "idle"

\* The state of a run main() starts in.
Init ==
    /\ SYNTAX \in {"markdown", "vimwiki"}
    /\ TEMPLATE_PATH = <<"tpl">>
    /\ TEMPLATE_DEFAULT \in {<<>>, <<"default">>}
    /\ TEMPLATE_EXT = <<".tpl">>
    /\ ROOT_PATH = <<"-">>
    /\ extensions_env \in { <<"{", "}">>, <<"toc">>, <<"true">> }
    /\ files \in FilesSet
    /\ input_ok \in BOOLEAN
    /\ output_ok \in BOOLEAN
    /\ post \in PostSet
    /\ body = BodyText
    /\ auto_index \in BOOLEAN
    /\ pc = "check_syntax"
    /\ template = <<>>
    /\ extensions = EmptyDict
    /\ extension_names = <<>>
    /\ md = NoMarkdown
    /\ placeholders = EmptyDict
    /\ content = <<>>
    /\ stderr = <<>>
    /\ exit_code = <<>>
    /\ reads = <<>>
    /\ writes = <<>>
    /\ LinkIdle

Next ==
    \/ CheckSyntax
    \/ AssignTemplate
    \/ ParseExtensions
    \/ NormalizeExtensions
    \/ ExtensionNames
    \/ SetupMarkdown
    \/ OpenInput
    \/ LoadFrontMatter
    \/ CollectPlaceholders
    \/ SelectTemplate
    \/ SubstitutePlaceholders
    \/ SubstituteRootPath
    \/ ConvertContent
    \/ MergeTemplate
    \/ WriteOutput

Spec == Init /\ [][Next]_vars

(***************************************************************************)
(* SpecLink: getLink on every target of HrefSet, for both auto_index.       *)
(***************************************************************************)
MainIdle ==
    /\ SYNTAX = "markdown"
    /\ TEMPLATE_PATH = <<"tpl">>
    /\ TEMPLATE_DEFAULT = <<>>
    /\ TEMPLATE_EXT = <<".tpl">>
    /\ ROOT_PATH = <<"-">>
    /\ extensions_env = <<"{", "}">>
    /\ files = <<>>
    /\ input_ok = TRUE
    /\ output_ok = TRUE
    /\ post = EmptyDict
    /\ body = <<>>
    /\ pc = "idle"
    /\ template = <<>>
    /\ extensions = EmptyDict
    /\ extension_names = <<>>
    /\ md = NoMarkdown
    /\ placeholders = EmptyDict
    /\ content = <<>>
    /\ stderr = <<>>
    /\ exit_code = <<>>
    /\ reads = <<>>
    /\ writes = <<>>

InitLink ==
    /\ MainIdle
    /\ auto_index \in BOOLEAN
    /\ href \in HrefSet
    /\ href1 = <<>>
    /\ href2 = <<>>
    /\ lpc = "call"

NextLink == GetLinkOnce \/ GetLinkAgain

SpecLink == InitLink /\ [][NextLink]_vars

(***************************************************************************)
(* Claims about getLink, under SpecLink.                                   *)
(***************************************************************************)
Rewritten == lpc \in {"once", "twice"}

Resolved(h) == StartsWith(h, Http) \/ EndsWith(h, DotHtml)

\* C1, as stated: for every target that does not start with "http" and does
\* not end in ".html", with auto-index off the rewritten target ends in
\* ".html", and with auto-index on and a target ending in "/" the rewritten
\* target ends in "index.html".
C1_AsStated ==
    (Rewritten /\ ~Resolved(href)) =>
        /\ ~auto_index => EndsWith(href1, DotHtml)
        /\ (auto_index /\ EndsWith(href, Slash)) => EndsWith(href1, IndexHtml)

\* C1, amended: for every target that does not start with "http" and does not
\* end in ".html", with auto-index off and a target that does not end in "/"
\* the rewritten target ends in ".html" (a target ending in "/" is returned
\* as it is), and with auto-index on and a target ending in "/" the rewritten
\* target ends in "index.html".
C1_Amended ==
    (Rewritten /\ ~Resolved(href)) =>
        /\ (~auto_index /\ ~EndsWith(href, Slash)) => EndsWith(href1, DotHtml)
        /\ (~auto_index /\ EndsWith(href, Slash)) => href1 = href
        /\ (auto_index /\ EndsWith(href, Slash)) => EndsWith(href1, IndexHtml)

\* A target ending in "/" was rewritten with auto-index off.
C1_Witness ==
    /\ Rewritten /\ ~Resolved(href) /\ ~auto_index
    /\ EndsWith(href, Slash) /\ Len(href) > 1
    /\ href1 = href

\* C10: the rewrite follows the stated policy for every target (a target
\* starting with "http" or ending in ".html" is unchanged; otherwise with
\* auto-index on and a target ending in "/", "index.html" is appended;
\* otherwise a target not ending in "/" gets ".html"; a target ending in "/"
\* with auto-index off is unchanged), and for every target that does not
\* start with "http" the rewrite of a rewritten target returns it unchanged.
C10_PolicyAndIdempotence ==
    /\ Rewritten =>
        /\ Resolved(href) => href1 = href
        /\ (~Resolved(href) /\ auto_index /\ EndsWith(href, Slash))
              => href1 = href \o IndexHtml
        /\ (~Resolved(href) /\ ~EndsWith(href, Slash))
              => href1 = href \o DotHtml
        /\ (~Resolved(href) /\ ~auto_index /\ EndsWith(href, Slash))
              => href1 = href
    /\ (lpc = "twice" /\ ~StartsWith(href, Http)) => href2 = href1

\* A target was rewritten, and the second rewrite left the result alone.
C10_Witness ==
    /\ lpc = "twice" /\ ~StartsWith(href, Http)
    /\ auto_index /\ EndsWith(href, Slash)
    /\ href1 = href \o IndexHtml /\ href2 = href1

(***************************************************************************)
(* Claims about the run of main(), under Spec.                             *)
(***************************************************************************)
Terminal == pc \in {"exited", "crashed", "done"}

\* The front matter has the key nohtml with the value "true".
NohtmlTrue == HasKey(post, KeyNohtml) /\ Get(post, KeyNohtml) = Str(<<"true">>)

\* The run got as far as reading the front matter of the input file.
FrontMatterRead == \E i \in 1..Len(reads) : reads[i] = INPUT_FILE

\* C2, as stated: every run whose front matter has nohtml with the value
\* "true" creates no output file and exits with code 0.
C2_AsStated ==
    (Terminal /\ NohtmlTrue) => (writes = <<>> /\ exit_code = <<0>>)

\* C2, amended: a run whose front matter has nohtml with the value "true"
\* never creates the output file, and it exits with code 0 exactly when it
\* gets as far as reading the front matter; a run that ends before (the
\* syntax is not "markdown", or an earlier step raised) exits with code 1.
C2_Amended ==
    NohtmlTrue =>
        /\ writes = <<>>
        /\ Terminal => /\ FrontMatterRead => (pc = "exited" /\ exit_code = <<0>>)
                       /\ ~FrontMatterRead => exit_code = <<1>>

\* A run read a front matter with nohtml "true" and ended there.
C2_Witness ==
    /\ NohtmlTrue /\ FrontMatterRead
    /\ pc = "exited" /\ exit_code = <<0>> /\ writes = <<>>

\* C6, as stated: every run performs exactly one write of the output file,
\* except a run suppressed by nohtml, which performs none; no other run ends
\* without writing the output file.
C6_AsStated ==
    Terminal =>
        IF NohtmlTrue /\ pc = "exited" /\ exit_code = <<0>>
        THEN Len(writes) = 0
        ELSE Len(writes) = 1

\* C6, amended: no run writes the output file more than once; a run that
\* reaches the end of main writes it exactly once; a run ends without writing
\* it only when the nohtml directive suppresses it (exit code 0), when the
\* syntax is not "markdown" (exit code 1), or when an unhandled error stops
\* it (exit code 1).
C6_Amended ==
    /\ Len(writes) <= 1
    /\ pc = "done" => (Len(writes) = 1 /\ exit_code = <<0>>)
    /\ (Terminal /\ pc # "done") =>
          /\ writes = <<>>
          /\ \/ pc = "exited" /\ exit_code = <<0>> /\ NohtmlTrue
             \/ pc = "exited" /\ exit_code = <<1>> /\ SYNTAX # "markdown"
             \/ pc = "crashed" /\ exit_code = <<1>>
    /\ ~Terminal => (writes = <<>> /\ exit_code = <<>>)

\* A run whose front matter has a nohtml key that is not "true" wrote the
\* output file once.
C6_Witness ==
    /\ pc = "done" /\ Len(writes) = 1
    /\ HasKey(post, KeyNohtml) /\ ~NohtmlTrue

\* The template selected before the front matter is looked at.
PreviousTemplate ==
    LET path == PathJoin(TEMPLATE_PATH, TEMPLATE_DEFAULT) \o TEMPLATE_EXT
    IN  IF path \in DOMAIN files THEN files[path] ELSE default_template

\* The front matter has a template key.
HasTemplateKey == HasKey(post, KeyTemplate)

\* The path line 149 builds from the value of the template key.
NamedPath == PathJoin(TEMPLATE_PATH, Get(post, KeyTemplate).v) \o TEMPLATE_EXT

\* C8: with a template key in the front matter, the template used for
\* rendering is the file <template-directory>/<template><template-extension>
\* if it exists; if it does not, the run goes on without error with the
\* template selected before (the default template file if it exists, the
\* built-in template otherwise); without a template key the template
\* selected before is used.  The code breaks the second part: a template
\* value that is no str (YAML gives 7 for "template: 7") names no existing
\* file, and os.path.join raises at line 149 instead of keeping the template.
C8_AsStated ==
    /\ pc = "select_template" => template = PreviousTemplate
    /\ (pc = "substitute_placeholders" /\ HasTemplateKey) =>
          template = IF NamedPath \in DOMAIN files
                     THEN files[NamedPath] ELSE PreviousTemplate
    /\ (pc = "substitute_placeholders" /\ ~HasTemplateKey) =>
          template = PreviousTemplate
    /\ pc = "crashed" => ~Contains(stderr, <<"line 149">>)

\* The front matter has a template key that names no existing file, and the
\* run ended with the traceback of line 149.
C8_Witness ==
    /\ pc = "crashed" /\ Contains(stderr, <<"line 149">>)
    /\ HasTemplateKey /\ NamedPath \notin DOMAIN files
    /\ writes = <<>> /\ exit_code = <<1>>

\* C9: whenever the syntax parameter is not "markdown" the run writes a
\* message to the error stream and exits with code 1, before the template
\* file or the input file is read and without creating the output file;
\* whenever it is "markdown" the run never exits with code 1 from this check.
C9_UnsupportedSyntax ==
    /\ (SYNTAX # "markdown" /\ pc # "check_syntax") =>
          /\ pc = "exited" /\ exit_code = <<1>>
          /\ stderr = <<"Unsupported syntax: ", SYNTAX>>
          /\ reads = <<>> /\ writes = <<>>
    /\ SYNTAX = "markdown" =>
          /\ ~(pc = "exited" /\ exit_code = <<1>>)
          /\ ~Contains(stderr, <<"Unsupported syntax: ">>)

\* A run with another syntax ended with code 1.
C9_Witness ==
    /\ SYNTAX # "markdown" /\ pc = "exited" /\ exit_code = <<1>>
    /\ stderr # <<>> /\ files # <<>>

(***************************************************************************)
(* SpecExt: lines 98-117 on the values of VIMWIKI_MARKDOWN_EXTENSIONS: the *)
(* legacy lists, the JSON objects and arrays of at most MaxExts extensions, *)
(* JSON values that are neither, and texts that are no JSON.               *)
(***************************************************************************)
ExtIds == {"codehilite", "toc", "nosuch"}

ConfigTexts == { <<"{", "}">>,
                 <<"{", Quote, "linenums", Quote, ":", "true", "}">>,
                 <<"true">> }

\* The words ws with a comma between each two.
RECURSIVE JoinComma(_)
JoinComma(ws) ==
    IF ws = <<>> THEN <<>>
    ELSE IF Len(ws) = 1 THEN ws[1]
    ELSE ws[1] \o <<",">> \o JoinComma(Tail(ws))

Quoted(w) == <<Quote, w, Quote>>

\* The legacy value that names ids: id,id,...
LegacyText(ids) == JoinComma([i \in 1..Len(ids) |-> <<ids[i]>>])

\* The JSON object {"id": config, ...} of the pairs <<id, config text>>.
ObjectText(pairs) ==
    <<"{">> \o JoinComma([i \in 1..Len(pairs) |->
                            Quoted(pairs[i][1]) \o <<":">> \o pairs[i][2]])
            \o <<"}">>

\* The JSON array ["id", ...].
ArrayText(ids) ==
    <<"[">> \o JoinComma([i \in 1..Len(ids) |-> Quoted(ids[i])]) \o <<"]">>

IdLists == SeqsUpTo(ExtIds, MaxExts) \ {<<>>}

LegacyEnvs == { LegacyText(ids) : ids \in IdLists }
ObjectEnvs == { ObjectText(ps) : ps \in SeqsUpTo(ExtIds \X ConfigTexts, MaxExts) }
ArrayEnvs  == { ArrayText(ids) : ids \in SeqsUpTo(ExtIds, MaxExts) }
OtherEnvs  == { <<"[", "true", ",", "1", "]">>, <<"[", "1", ",", "true", "]">>,
                <<"true">>, <<"null">>, Quoted("toc"), <<"[", "[", "]", "]">>,
                <<"[", "{", "}", "]">>, <<"[", "true", "]">>, <<>>,
                <<"toc", ",">>, <<"{", "}", "toc">> }
\* A JSON text that lost its last atom.
CutEnvs    == { SubSeq(e, 1, Len(e) - 1) : e \in ObjectEnvs \cup ArrayEnvs }

EnvSet == LegacyEnvs \cup ObjectEnvs \cup ArrayEnvs \cup OtherEnvs \cup CutEnvs

\* The state of a run that reached line 98, for each value of EnvSet.
InitExtensions ==
    /\ SYNTAX = "markdown"
    /\ TEMPLATE_PATH = <<"tpl">>
    /\ TEMPLATE_DEFAULT = <<>>
    /\ TEMPLATE_EXT = <<".tpl">>
    /\ ROOT_PATH = <<"-">>
    /\ extensions_env \in EnvSet
    /\ files = <<>>
    /\ input_ok = TRUE
    /\ output_ok = TRUE
    /\ post = EmptyDict
    /\ body = BodyText
    /\ auto_index = FALSE
    /\ pc = "parse_extensions"
    /\ template = default_template
    /\ extensions = EmptyDict
    /\ extension_names = <<>>
    /\ md = NoMarkdown
    /\ placeholders = EmptyDict
    /\ content = <<>>
    /\ stderr = <<>>
    /\ exit_code = <<>>
    /\ reads = <<>>
    /\ writes = <<>>
    /\ LinkIdle

NextExt ==
    \/ ParseExtensions
    \/ NormalizeExtensions
    \/ ExtensionNames
    \/ SetupMarkdown

SpecExt == InitExtensions /\ [][NextExt]_vars

\* The configuration the markdown engine loads extension name with:
\* extension_configs.get(name, {}).
ConfigFor(args, name) ==
    IF HasKey(args.extension_configs, name)
    THEN Get(args.extension_configs, name)
    ELSE EmptyDict

Baseline == { default_extension[i] : i \in 1..Len(default_extension) }

\* C5, as stated: for every value of VIMWIKI_MARKDOWN_EXTENSIONS the
\* configuration passed to the markdown engine for each baseline extension
\* is empty, also when the value names a baseline extension with options.
C5_AsStated ==
    pc = "open_input" => \A b \in Baseline : ConfigFor(md, b) = EmptyDict

\* C5, amended: the baseline extensions are always loaded, first and in
\* their order; the configuration passed to the markdown engine for a
\* baseline extension is empty unless VIMWIKI_MARKDOWN_EXTENSIONS names that
\* extension, and then it is the configuration the value gives for it.
C5_Amended ==
    pc = "open_input" =>
        /\ SubSeq(md.extensions, 1, Len(default_extension)) = default_extension
        /\ \A b \in Baseline :
              ConfigFor(md, b) = IF HasKey(extensions, b)
                                 THEN Get(extensions, b) ELSE EmptyDict

\* The value configures codehilite, and the engine was given that
\* configuration.
C5_Witness ==
    /\ pc = "open_input"
    /\ extensions_env = ObjectText(<< <<"codehilite",
                           <<"{", Quote, "linenums", Quote, ":", "true", "}">> >> >>)
    /\ ConfigFor(md, Str(<<"codehilite">>)) # EmptyDict

\* The value is a comma-separated list of extension identifiers.
IsLegacy(env) == env \in LegacyEnvs

IdsOf(env) == CHOOSE ids \in IdLists : LegacyText(ids) = env

\* What json.loads makes of the JSON object that maps the identifiers of a
\* legacy value, in their order, to an empty configuration.
AsObject(env) ==
    json_loads(ObjectText([i \in 1..Len(IdsOf(env)) |->
                              <<IdsOf(env)[i], <<"{", "}">> >>])).val

\* C7: a value that is a comma-separated list of extension identifiers
\* yields the extension names and the extension configurations of the JSON
\* object that maps each identifier, in the same order, to an empty
\* configuration; and a value that is no JSON never ends the run in the
\* parsing of lines 98-112.
C7_LegacyEquivalence ==
    /\ IsLegacy(extensions_env) =>
          /\ pc = "extension_names" => extensions = AsObject(extensions_env)
          /\ pc \in {"setup_markdown", "open_input"} =>
                /\ extensions = AsObject(extensions_env)
                /\ extension_names =
                      default_extension \o Keys(AsObject(extensions_env))
    /\ ~json_loads(extensions_env).ok =>
          /\ pc = "normalize_extensions" => extensions.t = "list"
          /\ pc \in {"extension_names", "setup_markdown"} => extensions.t = "dict"
          /\ pc = "crashed" => stderr = <<"Traceback", "line 114">>

\* The legacy value toc,codehilite was parsed into two extensions.
C7_Witness ==
    /\ extensions_env = <<"toc", ",", "codehilite">>
    /\ pc = "open_input"
    /\ Len(extension_names) = Len(default_extension) + 2

(***************************************************************************)
(* SpecRender: lines 132-169 on templates of at most MaxSlots tokens, for  *)
(* front matters that name a template file and give or leave out the title *)
(* and the date.                                                           *)
(***************************************************************************)
Tokens == {TokTitle, TokDate, TokRoot, TokContent}

\* What stands between two tokens of a template of the model: nothing, a
\* character of HTML, a stray "%", or a word that is a token's name.
Separators == { <<>>, <<"<">>, <<"%">>, <<"title">> }

\* The tokens ks with sep between each two.
RECURSIVE Build(_, _)
Build(ks, sep) ==
    IF ks = <<>> THEN <<>>
    ELSE IF Len(ks) = 1 THEN ks[1]
    ELSE ks[1] \o sep \o Build(Tail(ks), sep)

TemplateSet == { Build(ks, sep) : ks \in SeqsUpTo(Tokens, MaxSlots),
                                  sep \in Separators }

RenderTitleOpts == { <<>>, <<Item(KeyTitle, Str(<<"Hello">>))>>,
                     <<Item(KeyTitle, Str(TokDate))>> }
RenderDateOpts  == { <<>>, <<Item(KeyDate, Str(<<"title">>))>>,
                     <<Item(KeyDate, Str(<<>>))>> }

RenderPosts == { Dict(t \o d \o <<Item(KeyTemplate, Str(<<"post">>))>>) :
                   t \in RenderTitleOpts, d \in RenderDateOpts }

\* The root path and the body of the input file.
RootAndBody == { << <<"..", "/">>, <<"Text">> >>, << <<"-">>, <<"Text">> >>,
                 << <<"-">>, TokTitle >> }

\* The state of a run that read the front matter and goes on to line 132.
InitRender ==
    /\ SYNTAX = "markdown"
    /\ TEMPLATE_PATH = <<"tpl">>
    /\ TEMPLATE_DEFAULT = <<>>
    /\ TEMPLATE_EXT = <<".tpl">>
    /\ \E rb \in RootAndBody : ROOT_PATH = rb[1] /\ body = rb[2]
    /\ extensions_env = <<"{", "}">>
    /\ \E t \in TemplateSet : files = [p \in {PostPath} |-> t]
    /\ input_ok = TRUE
    /\ output_ok = TRUE
    /\ post \in RenderPosts
    /\ auto_index = FALSE
    /\ pc = "collect_placeholders"
    /\ template = default_template
    /\ extensions = EmptyDict
    /\ extension_names = default_extension
    /\ md = MarkdownArgs(default_extension, EmptyDict)
    /\ placeholders = EmptyDict
    /\ content = <<>>
    /\ stderr = <<>>
    /\ exit_code = <<>>
    /\ reads = <<INPUT_FILE>>
    /\ writes = <<>>
    /\ LinkIdle

NextRender ==
    \/ CollectPlaceholders
    \/ SelectTemplate
    \/ SubstitutePlaceholders
    \/ SubstituteRootPath
    \/ ConvertContent
    \/ MergeTemplate
    \/ WriteOutput

SpecRender == InitRender /\ [][NextRender]_vars

\* The template main renders: the file the front matter names if it exists,
\* the template selected before otherwise.
Original ==
    IF HasTemplateKey /\ NamedPath \in DOMAIN files
    THEN files[NamedPath] ELSE PreviousTemplate

\* The value of each token in a finished run.
ValueOf(tok) ==
    IF tok = TokTitle THEN Get(placeholders, Str(TokTitle)).v
    ELSE IF tok = TokDate THEN Get(placeholders, Str(TokDate)).v
    ELSE IF tok = TokRoot THEN (IF ROOT_PATH = <<"-">> THEN <<>> ELSE ROOT_PATH)
    ELSE content

Rendered == writes[1].data

\* s with each occurrence of a token, found from the left, replaced by the
\* value of that token, and with nothing else changed.
RECURSIVE EachTokenOnce(_)
EachTokenOnce(s) ==
    IF s = <<>> THEN <<>>
    ELSE IF \E tok \in Tokens : StartsWith(s, tok)
         THEN LET tok == CHOOSE k \in Tokens : StartsWith(s, k)
              IN  ValueOf(tok) \o EachTokenOnce(SubSeq(s, Len(tok) + 1, Len(s)))
         ELSE <<Head(s)>> \o EachTokenOnce(Tail(s))

HasAllTokens(s) == \A tok \in Tokens : Contains(s, tok)
HasNoToken(s)   == \A tok \in Tokens : ~Contains(s, tok)

\* The atoms made of lowercase letters and "_" only.
PlainWords == {"title", "date", "root_path", "content"}

\* Every "%" of s belongs to a token, and between two successive tokens
\* there is a character that is neither "%", a lowercase letter nor "_".
\* open: no such character was met since the last token.
RECURSIVE Separated(_, _)
Separated(s, open) ==
    IF s = <<>> THEN TRUE
    ELSE IF Head(s) = "%"
         THEN /\ ~open
              /\ \E tok \in Tokens : StartsWith(s, tok)
              /\ Separated(SubSeq(s, 4, Len(s)), TRUE)
         ELSE Separated(Tail(s), open /\ Head(s) \in PlainWords)

WellFormed(s) == Separated(s, FALSE)

ValuesWithoutPercent == \A tok \in Tokens : ~Contains(ValueOf(tok), <<"%">>)

\* C3, as stated: for every template that contains the four tokens and for
\* all values, the rendered document has each token occurrence replaced once
\* by its own value and contains none of the four tokens.
C3_AsStated ==
    (pc = "done" /\ HasAllTokens(Original)) =>
        (Rendered = EachTokenOnce(Original) /\ HasNoToken(Rendered))

\* C3, amended: for every template that contains the four tokens, in which
\* every "%" belongs to a token and any two successive tokens are separated
\* by text with a character that is neither "%", a lowercase letter nor "_",
\* and for all values that contain no "%", the rendered document has each
\* token occurrence replaced once by its own value and contains none of the
\* four tokens.
C3_Amended ==
    (pc = "done" /\ HasAllTokens(Original) /\ WellFormed(Original)
       /\ ValuesWithoutPercent) =>
        (Rendered = EachTokenOnce(Original) /\ HasNoToken(Rendered))

\* A template of the four tokens, well separated, was rendered with the
\* root path "-".
C3_Witness ==
    /\ pc = "done" /\ HasAllTokens(Original) /\ WellFormed(Original)
    /\ ValuesWithoutPercent /\ ROOT_PATH = <<"-">>
    /\ Rendered # Original /\ ~Contains(Rendered, <<"%">>)

\* The four substitutions in the order p (p[1] first).
Orders == { p \in [1..4 -> Tokens] : \A i, j \in 1..4 : p[i] = p[j] => i = j }

RECURSIVE InOrder(_, _)
InOrder(s, p) ==
    IF p = <<>> THEN s
    ELSE InOrder(Replace(s, Head(p), ValueOf(Head(p))), Tail(p))

\* C4, as stated: for every template and all values, the four substitutions
\* in any order yield the document main writes.
C4_AsStated ==
    pc = "done" => \A p \in Orders : InOrder(Original, p) = Rendered

\* C4, amended: for every template in which every "%" belongs to a token and
\* any two successive tokens are separated by text with a character that is
\* neither "%", a lowercase letter nor "_", and for all values that contain
\* no "%", the four substitutions in any order yield the document main
\* writes.
C4_Amended ==
    (pc = "done" /\ WellFormed(Original) /\ ValuesWithoutPercent) =>
        \A p \in Orders : InOrder(Original, p) = Rendered

\* A well separated template with two tokens or more was rendered.
C4_Witness ==
    /\ pc = "done" /\ WellFormed(Original) /\ ValuesWithoutPercent
    /\ Contains(Original, TokDate) /\ Contains(Original, TokTitle)
    /\ Rendered # Original

====
